---- MODULE Spec2Model ----
(***************************************************************************)
(* Verifiable threshold secret sharing (zk-thresh-pro).                    *)
(*                                                                         *)
(* Scalars are the integers modulo the prime group order; group elements   *)
(* are the elements of the cyclic group of that order, written additively  *)
(* as multiples of the base point.  Polynomials are coefficient sequences, *)
(* lowest degree first (position k holds the coefficient of x^(k-1)).      *)
(***************************************************************************)
EXTENDS Integers, Sequences, FiniteSets, TLC

VARIABLES
    shares,     \* the share records the caller currently holds (Vec<ShareData>)
    secret,     \* the secret the held records share (f(0))
    threshold,  \* the threshold t of the held sharing
    polys,      \* the polynomials sampled by the operation that made them
    origin,     \* the operation that made the held records
    call,       \* the scalar arguments of the last dealing or reshare call (a failed
                \* reshare leaves those of the call that made the held records)
    op,         \* the last operation that ran
    arg,        \* the input handed to the last reconstruction, verification or routine
    tamper,     \* position in arg of a record the caller altered (0: none)
    result,     \* the value the last operation returned
    crypto_system,  \* the EnterpriseCryptoSystem: its configuration, its audit
                \* events and its performance metrics
    key         \* the Key under lifecycle management

vars == <<shares, secret, threshold, polys, origin, call, op, arg, tamper, result,
          crypto_system, key>>

----------------------------------------------------------------------------
(* Bounds of the model *)

MaxN == 3          \* largest number of shares dealt (thresholds are 1..n)
MaxParties == 2    \* largest number of MPC parties
MaxNew == 2        \* largest number of shares a reshare produces
MaxSecret == 1     \* secrets dealt are 0..MaxSecret
MaxLen == 3        \* longest deserialized share collection
MaxIdx == 2        \* largest index in a deserialized share record
MaxShare == 1      \* largest share value in a deserialized share record
MaxCoeffs == 2     \* longest coefficient sequence handed to the polynomial engine
MaxText == 5       \* longest text handed to a decoder
MaxPattern == 1    \* coefficient patterns of the long operands are 0..MaxPattern
MaxRefresh == 2    \* largest threshold handed to update_shares on received records
MaxBatch == 2      \* largest number of batches handed to recover_secrets_batch
MaxPoints == 3     \* longest sequence of evaluation points handed to the engine

----------------------------------------------------------------------------
(* Scalar field (curve25519_dalek::scalar::Scalar) *)

BASEPOINT_ORDER == 5

Field == 0..(BASEPOINT_ORDER - 1)

Add(a, b) == (a + b) % BASEPOINT_ORDER
Neg(a) == (BASEPOINT_ORDER - a) % BASEPOINT_ORDER
Sub(a, b) == Add(a, Neg(b))
Mul(a, b) == (a * b) % BASEPOINT_ORDER

\* Scalar::from(i as u64)
FromU64(i) == i % BASEPOINT_ORDER

RECURSIVE pow_scalar(_, _)
\* utils::pow_scalar: exponentiation by repeated squaring
pow_scalar(x, e) ==
    IF e = 0 THEN 1
    ELSE IF e % 2 = 0 THEN pow_scalar(Mul(x, x), e \div 2)
    ELSE Mul(x, pow_scalar(Mul(x, x), e \div 2))

\* Scalar::invert: the multiplicative inverse; the inverse of zero is zero
Invert(x) == IF x = 0 THEN 0 ELSE CHOOSE y \in Field : Mul(x, y) = 1

RECURSIVE x_pow(_, _)
\* the running power of the evaluation loops: 1 multiplied k times by x
x_pow(x, k) == IF k = 0 THEN 1 ELSE Mul(x_pow(x, k - 1), x)

----------------------------------------------------------------------------
(* Group (RistrettoPoint): a point is its discrete logarithm to the base   *)
(* point, so the identity is 0, point addition is Add and scalar           *)
(* multiplication is Mul.                                                  *)

RISTRETTO_BASEPOINT_POINT == 1
ANOTHER_POINT == 2
IdentityPoint == 0

\* variant: both terms of the commitment are taken on the base point
Commit_same_base(share, random) ==
    Add(Mul(RISTRETTO_BASEPOINT_POINT, share), Mul(RISTRETTO_BASEPOINT_POINT, random))

\* commitment = G * share + H * random
Commit(share, random) ==
    Add(Mul(RISTRETTO_BASEPOINT_POINT, share), Mul(ANOTHER_POINT, random))

----------------------------------------------------------------------------
(* Randomness.  One run of an operation reads the system generator as a    *)
(* stream; Draw(rng, k) is its k-th output.                                *)

Streams == Field \X Field

Draw(rng, k) == rng[((k - 1) % 2) + 1]

\* the streams explored for resharing, which reads the generator far more often
ReshareStreams == {rng \in Streams : rng[2] = Add(rng[1], 1)}

----------------------------------------------------------------------------
(* Folds *)

RECURSIVE SumRange(_, _, _)
\* sum in the field of f[lo] .. f[hi], by halves
SumRange(f, lo, hi) ==
    IF lo > hi THEN 0
    ELSE IF lo = hi THEN f[lo]
    ELSE Add(SumRange(f, lo, (lo + hi) \div 2), SumRange(f, (lo + hi) \div 2 + 1, hi))

\* sum in the field of f[1] .. f[n]
SumTo(f, n) == SumRange(f, 1, n)

RECURSIVE ProdTo(_, _)
\* product in the field of f[1] .. f[n]
ProdTo(f, n) == IF n = 0 THEN 1 ELSE Mul(ProdTo(f, n - 1), f[n])

Max(a, b) == IF a >= b THEN a ELSE b
Min(a, b) == IF a <= b THEN a ELSE b

\* least element of a non-empty set of integers
Least(S) == CHOOSE x \in S : \A y \in S : x <= y

----------------------------------------------------------------------------
(* Polynomial engine (lagrange_fft.rs) *)

\* coefficient k of a, zero past its end
Coeff(a, k) == IF k <= Len(a) THEN a[k] ELSE 0

poly_add(a, b) ==
    [k \in 1..Max(Len(a), Len(b)) |-> Add(Coeff(a, k), Coeff(b, k))]

poly_sub(a, b) ==
    [k \in 1..Max(Len(a), Len(b)) |-> Sub(Coeff(a, k), Coeff(b, k))]

\* a.len() + b.len() - 1 underflows usize when both operands are empty:
\* the call panics (debug) or requests an impossible allocation (release)
mul_panics(a, b) == Len(a) + Len(b) = 0

naive_mul(a, b) ==
    [k \in 1..(Len(a) + Len(b) - 1) |->
        SumTo([i \in 1..Len(a) |->
                 IF k + 1 - i >= 1 /\ k + 1 - i <= Len(b)
                 THEN Mul(a[i], b[k + 1 - i]) ELSE 0], Len(a))]

\* result[i + off] += z[i] for every i with i + off inside result
AddShifted(res, z, off) ==
    [k \in 1..Len(res) |->
        IF k - off >= 1 /\ k - off <= Len(z) THEN Add(res[k], z[k - off]) ELSE res[k]]

Zeros(n) == [k \in 1..n |-> 0]

RECURSIVE karatsuba_mul_middle_at_zero(_, _)
\* variant: the middle term is added without its shift by m
karatsuba_mul_middle_at_zero(a, b) ==
    LET n == Max(Len(a), Len(b)) IN
    IF n <= 32 THEN naive_mul(a, b)
    ELSE
      LET m == n \div 2
          a_low == SubSeq(a, 1, Min(Len(a), m))
          a_high == IF Len(a) > m THEN SubSeq(a, m + 1, Len(a)) ELSE <<>>
          b_low == SubSeq(b, 1, Min(Len(b), m))
          b_high == IF Len(b) > m THEN SubSeq(b, m + 1, Len(b)) ELSE <<>>
          z0 == karatsuba_mul_middle_at_zero(a_low, b_low)
          z2 == karatsuba_mul_middle_at_zero(a_high, b_high)
          a_sum == poly_add(a_low, a_high)
          b_sum == poly_add(b_low, b_high)
          z1 == poly_sub(poly_sub(karatsuba_mul_middle_at_zero(a_sum, b_sum), z0), z2)
      IN AddShifted(AddShifted(AddShifted(Zeros(Len(a) + Len(b) - 1), z0, 0), z1, 0),
                    z2, 2 * m)

RECURSIVE karatsuba_mul(_, _)
karatsuba_mul(a, b) ==
    LET n == Max(Len(a), Len(b)) IN
    IF n <= 32 THEN naive_mul(a, b)
    ELSE
      LET m == n \div 2
          a_low == SubSeq(a, 1, Min(Len(a), m))
          a_high == IF Len(a) > m THEN SubSeq(a, m + 1, Len(a)) ELSE <<>>
          b_low == SubSeq(b, 1, Min(Len(b), m))
          b_high == IF Len(b) > m THEN SubSeq(b, m + 1, Len(b)) ELSE <<>>
          z0 == karatsuba_mul(a_low, b_low)
          z2 == karatsuba_mul(a_high, b_high)
          a_sum == poly_add(a_low, a_high)
          b_sum == poly_add(b_low, b_high)
          z1 == poly_sub(poly_sub(karatsuba_mul(a_sum, b_sum), z0), z2)
      IN AddShifted(AddShifted(AddShifted(Zeros(Len(a) + Len(b) - 1), z0, 0), z1, m),
                    z2, 2 * m)

RECURSIVE parallel_karatsuba_mul(_, _)
parallel_karatsuba_mul(a, b) ==
    LET n == Max(Len(a), Len(b)) IN
    IF n <= 1024 THEN karatsuba_mul(a, b)
    ELSE
      LET m == n \div 2
          a_low == SubSeq(a, 1, Min(Len(a), m))
          a_high == IF Len(a) > m THEN SubSeq(a, m + 1, Len(a)) ELSE <<>>
          b_low == SubSeq(b, 1, Min(Len(b), m))
          b_high == IF Len(b) > m THEN SubSeq(b, m + 1, Len(b)) ELSE <<>>
          z0 == parallel_karatsuba_mul(a_low, b_low)
          z2 == parallel_karatsuba_mul(a_high, b_high)
          a_sum == poly_add(a_low, a_high)
          b_sum == poly_add(b_low, b_high)
          z1 == poly_sub(poly_sub(parallel_karatsuba_mul(a_sum, b_sum), z0), z2)
      IN AddShifted(AddShifted(AddShifted(Zeros(Len(a) + Len(b) - 1), z0, 0), z1, m),
                    z2, 2 * m)

poly_mul(a, b) ==
    LET result_len == Len(a) + Len(b) - 1 IN
    IF result_len <= 64 THEN naive_mul(a, b)
    ELSE IF result_len <= 1024 THEN karatsuba_mul(a, b)
    ELSE parallel_karatsuba_mul(a, b)

RECURSIVE poly_product_skip_mid(_)
\* variant: the right half starts one factor late
poly_product_skip_mid(ps) ==
    IF Len(ps) = 0 THEN <<1>>
    ELSE IF Len(ps) = 1 THEN ps[1]
    ELSE IF Len(ps) <= 2 THEN poly_mul(ps[1], ps[2])
    ELSE LET mid == Len(ps) \div 2
         IN poly_mul(poly_product_skip_mid(SubSeq(ps, 1, mid)),
                     poly_product_skip_mid(SubSeq(ps, mid + 2, Len(ps))))

RECURSIVE poly_product(_)
poly_product(ps) ==
    IF Len(ps) = 0 THEN <<1>>
    ELSE IF Len(ps) = 1 THEN ps[1]
    ELSE IF Len(ps) <= 2 THEN poly_mul(ps[1], ps[2])
    ELSE LET mid == Len(ps) \div 2
         IN poly_mul(poly_product(SubSeq(ps, 1, mid)),
                     poly_product(SubSeq(ps, mid + 1, Len(ps))))

\* variant: the coefficients are shifted down without their degree factor
poly_derivative_unscaled(poly) ==
    IF Len(poly) <= 1 THEN <<0>>
    ELSE [i \in 1..(Len(poly) - 1) |-> poly[i + 1]]

poly_derivative(poly) ==
    IF Len(poly) <= 1 THEN <<0>>
    ELSE [i \in 1..(Len(poly) - 1) |-> Mul(FromU64(i), poly[i + 1])]

RECURSIVE Horner(_, _, _)
\* the fold of poly_evaluate over the coefficients k, k-1, .., 1 taken last
Horner(poly, x, k) ==
    IF k > Len(poly) THEN 0
    ELSE Add(Mul(Horner(poly, x, k + 1), x), poly[k])

\* variant: the fold takes the coefficients lowest degree first
poly_evaluate_forward(poly, x) ==
    SumTo([k \in 1..Len(poly) |-> Mul(poly[k], x_pow(x, Len(poly) - k))], Len(poly))

poly_evaluate(poly, x) == IF Len(poly) = 0 THEN 0 ELSE Horner(poly, x, 1)

----------------------------------------------------------------------------
(* Results.  Every result is a record of one shape, so that results of     *)
(* different kinds can be compared.                                        *)

Ok(v) == [kind |-> "Ok", value |-> v, index |-> 0, needed |-> 0, provided |-> 0]

InsufficientShares(n, p) ==
    [kind |-> "InsufficientShares", value |-> 0, index |-> 0, needed |-> n, provided |-> p]

InvalidShareIndex(i) ==
    [kind |-> "InvalidShareIndex", value |-> 0, index |-> i, needed |-> 0, provided |-> 0]

DuplicateShareIndex(i) ==
    [kind |-> "DuplicateShareIndex", value |-> 0, index |-> i, needed |-> 0, provided |-> 0]

ZeroDerivative(i) ==
    [kind |-> "ZeroDerivative", value |-> 0, index |-> i, needed |-> 0, provided |-> 0]

NumericalInstability ==
    [kind |-> "NumericalInstability", value |-> 0, index |-> 0, needed |-> 0, provided |-> 0]

\* the call did not return: it panicked
Panicked == [kind |-> "Panic", value |-> 0, index |-> 0, needed |-> 0, provided |-> 0]

\* the result of an operation that has not run
NoResult == [kind |-> "None", value |-> 0, index |-> 0, needed |-> 0, provided |-> 0]

----------------------------------------------------------------------------
(* Lagrange reconstruction (lagrange_fft.rs) *)

\* variant: the numerator also multiplies in the position's own index
LagrangeNumerator_all(indices, i) ==
    ProdTo([j \in 1..Len(indices) |-> indices[j]], Len(indices))

\* numerator and denominator of the coefficient of position i
LagrangeNumerator(indices, i) ==
    ProdTo([j \in 1..Len(indices) |-> IF j = i THEN 1 ELSE indices[j]], Len(indices))

\* variant: the differences are taken the other way round, x_j - x_i
LagrangeDenominator_reversed(indices, i) ==
    ProdTo([j \in 1..Len(indices) |->
              IF j = i THEN 1 ELSE Sub(indices[j], indices[i])], Len(indices))

LagrangeDenominator(indices, i) ==
    ProdTo([j \in 1..Len(indices) |->
              IF j = i THEN 1 ELSE Sub(indices[i], indices[j])], Len(indices))

\* variant: an input containing the element 0 is refused
compute_lagrange_coefficients_nonzero(indices) ==
    LET m == Len(indices)
        sign == IF (m - 1) % 2 = 0 THEN 1 ELSE Neg(1)
    IN IF m = 0 THEN InsufficientShares(1, 0)
       ELSE IF \E i \in 1..m : indices[i] = 0 THEN InvalidShareIndex(0)
       ELSE IF \E i, j \in 1..m : i # j /\ indices[i] = indices[j]
            THEN DuplicateShareIndex(1)
       ELSE Ok([i \in 1..m |->
                  Mul(Mul(sign, LagrangeNumerator(indices, i)),
                      Invert(LagrangeDenominator(indices, i)))])

compute_lagrange_coefficients(indices) ==
    LET m == Len(indices)
        \* positions whose element was already inserted in `seen`
        dups == {i \in 1..m : \E j \in 1..(i - 1) : indices[j] = indices[i]}
        sign == IF (m - 1) % 2 = 0 THEN 1 ELSE Neg(1)
        \* positions at which the coefficient loop returns an error
        zero_diff == {i \in 1..m : \E j \in 1..m : j # i /\ Sub(indices[i], indices[j]) = 0}
        zero_den == {i \in 1..m : LagrangeDenominator(indices, i) = 0}
    IN IF m = 0 THEN InsufficientShares(1, 0)
       ELSE IF dups # {} THEN
            LET i == Least(dups)
                prev_i == CHOOSE j \in 1..(i - 1) : indices[j] = indices[i]
            IN DuplicateShareIndex(prev_i)
       ELSE IF zero_diff \cup zero_den # {} THEN
            LET i == Least(zero_diff \cup zero_den)
            IN IF i \in zero_diff THEN DuplicateShareIndex(i) ELSE ZeroDerivative(i)
       ELSE Ok([i \in 1..m |->
                  Mul(Mul(sign, LagrangeNumerator(indices, i)),
                      Invert(LagrangeDenominator(indices, i)))])

\* variant: only the first record's index is validated
recover_secret_fft_first_index(ss) ==
    LET m == Len(ss)
        xs == [i \in 1..m |-> FromU64(ss[i].index)]
        q_poly == poly_product([i \in 1..m |-> <<Neg(xs[i]), 1>>])
        q_0 == IF Len(q_poly) # 0 THEN q_poly[1] ELSE 1
        q_derivative == poly_derivative(q_poly)
        q(i) == poly_evaluate(q_derivative, xs[i])
        zero_q == {i \in 1..m : q(i) = 0}
        lagrange_coeff(i) == Mul(Neg(q_0), Invert(Mul(xs[i], q(i))))
    IN IF m = 0 THEN InsufficientShares(1, 0)
       ELSE IF ss[1].index = 0 THEN InvalidShareIndex(0)
       ELSE IF zero_q # {} THEN ZeroDerivative(ss[Least(zero_q)].index)
       ELSE Ok(SumTo([i \in 1..m |-> Mul(ss[i].share, lagrange_coeff(i))], m))

\* variant: the empty collection is not rejected
recover_secret_fft_unguarded(ss) ==
    LET m == Len(ss)
        xs == [i \in 1..m |-> FromU64(ss[i].index)]
        q_poly == poly_product([i \in 1..m |-> <<Neg(xs[i]), 1>>])
        q_0 == IF Len(q_poly) # 0 THEN q_poly[1] ELSE 1
        q_derivative == poly_derivative(q_poly)
        q(i) == poly_evaluate(q_derivative, xs[i])
        zero_q == {i \in 1..m : q(i) = 0}
        lagrange_coeff(i) == Mul(Neg(q_0), Invert(Mul(xs[i], q(i))))
    IN IF \E i \in 1..m : ss[i].index = 0 THEN InvalidShareIndex(0)
       ELSE IF zero_q # {} THEN ZeroDerivative(ss[Least(zero_q)].index)
       ELSE Ok(SumTo([i \in 1..m |-> Mul(ss[i].share, lagrange_coeff(i))], m))

recover_secret_fft(ss) ==
    LET m == Len(ss)
        xs == [i \in 1..m |-> FromU64(ss[i].index)]
        q_poly == poly_product([i \in 1..m |-> <<Neg(xs[i]), 1>>])
        q_0 == IF Len(q_poly) # 0 THEN q_poly[1] ELSE 1
        q_derivative == poly_derivative(q_poly)
        q(i) == poly_evaluate(q_derivative, xs[i])
        zero_q == {i \in 1..m : q(i) = 0}
        lagrange_coeff(i) == Mul(Neg(q_0), Invert(Mul(xs[i], q(i))))
        \* the shares of index 0, in order (never reached with one present)
        zero_shares == {i \in 1..m : ss[i].index = 0}
    IN IF m = 0 THEN InsufficientShares(1, 0)
       ELSE IF \E i \in 1..m : ss[i].index = 0 THEN InvalidShareIndex(0)
       ELSE IF zero_shares # {} THEN
            IF \E i \in zero_shares : ss[i].share # ss[Least(zero_shares)].share
            THEN NumericalInstability
            ELSE Ok(ss[Least(zero_shares)].share)
       ELSE IF zero_q # {} THEN ZeroDerivative(ss[Least(zero_q)].index)
       ELSE Ok(SumTo([i \in 1..m |-> Mul(ss[i].share, lagrange_coeff(i))], m))

----------------------------------------------------------------------------
(* Commitment proof (proof.rs): Schnorr-style proof of knowledge of the    *)
(* opening (share, random) of a commitment, bound to the share index.      *)

\* Fiat-Shamir challenge: a fixed function of the transcript into the field
Challenge(commitment, T, index) ==
    (1 + RISTRETTO_BASEPOINT_POINT + 2 * ANOTHER_POINT
       + 3 * commitment + commitment * T + 2 * T + index) % BASEPOINT_ORDER

\* u and v are the prover's nonces
generate_proof(share, random, index, commitment, u, v) ==
    LET T == Commit(u, v)
        e == Challenge(commitment, T, index)
    IN [T |-> T, z_s |-> Add(u, Mul(e, share)), z_r |-> Add(v, Mul(e, random))]

verify_proof(proof, commitment, index) ==
    LET e == Challenge(commitment, proof.T, index)
    IN /\ proof.T # IdentityPoint
       /\ Commit(proof.z_s, proof.z_r) = Add(proof.T, Mul(e, commitment))

----------------------------------------------------------------------------
(* Sharing service (sharing.rs, mpc.rs, vss.rs) *)

\* variant: the powers start at x^0, so the first coefficient is a constant term
EvalNonConstant_offset(c, x) ==
    SumTo([j \in 1..Len(c) |-> Mul(c[j], pow_scalar(x, j - 1))], Len(c))

\* c[1] * x + c[2] * x^2 + ... : the loop adding coeff * pow_scalar(x, j + 1)
EvalNonConstant(c, x) ==
    SumTo([j \in 1..Len(c) |-> Mul(c[j], pow_scalar(x, j))], Len(c))

\* the loop adding a * x_pow, x_pow running through x, x^2, ...
EvalFromX(c, x) ==
    SumTo([k \in 1..Len(c) |-> Mul(c[k], x_pow(x, k))], Len(c))

\* variant: x_pow is never advanced and stays 1
EvalRunning_fixed(c, x) == SumTo([k \in 1..Len(c) |-> c[k]], Len(c))

\* the loop adding coeff * x_pow, x_pow running through 1, x, x^2, ...
EvalRunning(c, x) ==
    SumTo([k \in 1..Len(c) |-> Mul(c[k], x_pow(x, k - 1))], Len(c))

\* variant: the last sampled coefficient is left out of the polynomial
ShareValue_short(s, coeffs, i) ==
    Add(s, EvalNonConstant(SubSeq(coeffs, 1, Len(coeffs) - 1), FromU64(i)))

\* value of share i: f(i) for f(x) = secret + coeffs[1] * x + coeffs[2] * x^2 + ...
ShareValue(s, coeffs, i) == Add(s, EvalNonConstant(coeffs, FromU64(i)))

\* variant: only the share value is cleared
ShareData_drop_share_only(rec) == [rec EXCEPT !.share = 0]

\* impl Drop for ShareData: the contents of the record's storage when it is released
ShareData_drop(rec) == [rec EXCEPT !.share = 0, !.random = 0]

generate_key_shares(s, t, n, rng) ==
    LET coeffs == [j \in 1..(t - 1) |-> Draw(rng, j)]
        base(i) == (t - 1) + 3 * (i - 1)
        share(i) == ShareValue(s, coeffs, i)
        random(i) == Draw(rng, base(i) + 1)
        commitment(i) == Commit(share(i), random(i))
    IN [i \in 1..n |->
          [index |-> i, share |-> share(i), commitment |-> commitment(i),
           random |-> random(i),
           proof |-> generate_proof(share(i), random(i), i, commitment(i),
                                    Draw(rng, base(i) + 2), Draw(rng, base(i) + 3))]]

\* variant: every record gets a polynomial of its own
update_shares_own_polynomial(ss, t, rng) ==
    LET update_coeffs(k) == [j \in 1..(t - 1) |-> Draw(rng, j + k)]
        base(k) == (t - 1) + 3 * (k - 1)
        update_val(k) == EvalNonConstant(update_coeffs(k), FromU64(ss[k].index))
        new_share(k) == Add(ss[k].share, update_val(k))
        new_random(k) == Draw(rng, base(k) + 1)
        new_commitment(k) == Commit(new_share(k), new_random(k))
    IN [k \in 1..Len(ss) |->
          [index |-> ss[k].index, share |-> new_share(k),
           commitment |-> new_commitment(k), random |-> new_random(k),
           proof |-> generate_proof(new_share(k), new_random(k), ss[k].index,
                                    new_commitment(k),
                                    Draw(rng, base(k) + 2), Draw(rng, base(k) + 3))]]

update_shares(ss, t, rng) ==
    LET update_coeffs == [j \in 1..(t - 1) |-> Draw(rng, j)]
        base(k) == (t - 1) + 3 * (k - 1)
        update_val(k) == EvalNonConstant(update_coeffs, FromU64(ss[k].index))
        new_share(k) == Add(ss[k].share, update_val(k))
        new_random(k) == Draw(rng, base(k) + 1)
        new_commitment(k) == Commit(new_share(k), new_random(k))
    IN [k \in 1..Len(ss) |->
          [index |-> ss[k].index, share |-> new_share(k),
           commitment |-> new_commitment(k), random |-> new_random(k),
           proof |-> generate_proof(new_share(k), new_random(k), ss[k].index,
                                    new_commitment(k),
                                    Draw(rng, base(k) + 2), Draw(rng, base(k) + 3))]]

\* the polynomial the two operations above sample, under the constant term c0
DealtPolynomial(c0, t, rng) == <<c0>> \o [j \in 1..(t - 1) |-> Draw(rng, j)]

\* Result<Vec<ShareData>, String> of adjust_threshold; `what` names the message
\* and `inner` is the Lagrange error the message is formatted from
AdjustOk(ss) == [kind |-> "Ok", what |-> "", index |-> 0, inner |-> NoResult, shares |-> ss]

AdjustErr(what, i, inner) ==
    [kind |-> "Err", what |-> what, index |-> i, inner |-> inner, shares |-> <<>>]

adjust_threshold(existing_shares, original_threshold, new_threshold, n, rng) ==
    LET m == Len(existing_shares)
        \* positions at which the validation loop returns
        bad == {k \in 1..m :
                  \/ existing_shares[k].index = 0
                  \/ \E j \in 1..(k - 1) : existing_shares[j].index = existing_shares[k].index}
        indices == [k \in 1..m |-> FromU64(existing_shares[k].index)]
        lambda == compute_lagrange_coefficients(indices)
        \* draws of one contributor: its coefficients, then the blinding terms of
        \* every new share
        per == (new_threshold - 1) * (n + 1)
        coeffs == [i \in 1..m |->
                     <<Mul(existing_shares[i].share, lambda.value[i])>>
                     \o [k \in 1..(new_threshold - 1) |-> Draw(rng, (i - 1) * per + k)]]
        blind(i, j) ==
            [k \in 1..(new_threshold - 1) |->
               Draw(rng, (i - 1) * per + (new_threshold - 1) + (j - 1) * (new_threshold - 1) + k)]
        new_shares_vals ==
            [j \in 1..n |-> SumTo([i \in 1..m |-> EvalRunning(coeffs[i], FromU64(j))], m)]
        new_randoms ==
            [j \in 1..n |->
               SumTo([i \in 1..m |-> EvalFromX(blind(i, j), FromU64(j))], m)]
        commitment == [j \in 1..n |-> Commit(new_shares_vals[j], new_randoms[j])]
        base(j) == m * per + 2 * (j - 1)
    IN IF m < original_threshold THEN AdjustErr("AtLeast", original_threshold, NoResult)
       ELSE IF bad # {} THEN
            LET k == Least(bad)
            IN IF existing_shares[k].index = 0
               THEN AdjustErr("IndexZero", 0, NoResult)
               ELSE AdjustErr("IndexRepeat", existing_shares[k].index, NoResult)
       ELSE IF lambda.kind # "Ok" THEN AdjustErr("Lagrange", 0, lambda)
       ELSE AdjustOk([j \in 1..n |->
                        [index |-> j, share |-> new_shares_vals[j],
                         commitment |-> commitment[j], random |-> new_randoms[j],
                         proof |-> generate_proof(new_shares_vals[j], new_randoms[j], j,
                                                  commitment[j], Draw(rng, base(j) + 1),
                                                  Draw(rng, base(j) + 2))]])

mpc_party_polynomials(parties, t, rng) ==
    [p \in 1..parties |-> [k \in 1..t |-> Draw(rng, (p - 1) * t + k)]]

mpc_generate_key_shares(parties, t, n, rng) ==
    LET party_polynomials == mpc_party_polynomials(parties, t, rng)
        global_secret == SumTo([p \in 1..parties |-> party_polynomials[p][1]], parties)
        base(i) == parties * t + 3 * (i - 1)
        aggregated_share(i) ==
            SumTo([p \in 1..parties |-> EvalRunning(party_polynomials[p], FromU64(i))],
                  parties)
        aggregated_random(i) == Draw(rng, base(i) + 1)
        commitment(i) == Commit(aggregated_share(i), aggregated_random(i))
    IN [secret |-> global_secret,
        shares |-> [i \in 1..n |->
                      [index |-> i, share |-> aggregated_share(i),
                       commitment |-> commitment(i), random |-> aggregated_random(i),
                       proof |-> generate_proof(aggregated_share(i), aggregated_random(i), i,
                                                commitment(i), Draw(rng, base(i) + 2),
                                                Draw(rng, base(i) + 3))]]]

RECURSIVE verify_scan_no_return(_, _)
\* variant: a failing record does not end the loop
verify_scan_no_return(ss, k) ==
    IF k > Len(ss) THEN [valid |-> TRUE, examined |-> Len(ss)]
    ELSE verify_scan_no_return(ss, k + 1)

RECURSIVE verify_scan(_, _)
\* the loop of verify_share_validity from record k on: the verdict, and the
\* number of records whose proof it has checked when it returns
verify_scan(ss, k) ==
    IF k > Len(ss) THEN [valid |-> TRUE, examined |-> Len(ss)]
    ELSE IF ~verify_proof(ss[k].proof, ss[k].commitment, ss[k].index)
         THEN [valid |-> FALSE, examined |-> k]
         ELSE verify_scan(ss, k + 1)

verify_share_validity(ss) == verify_scan(ss, 1).valid

----------------------------------------------------------------------------
(* The system: a caller deals a sharing, refreshes or reshares it, and     *)
(* hands collections of records to reconstruction and verification.        *)

Secrets == 0..MaxSecret

RECURSIVE Ordered(_)
\* the elements of a finite set of integers in increasing order
Ordered(S) == IF S = {} THEN <<>> ELSE <<Least(S)>> \o Ordered(S \ {Least(S)})

\* the records of ss at the positions I, in order
Select(ss, I) == [k \in 1..Cardinality(I) |-> ss[Ordered(I)[k]]]

\* ss with the share value of record k replaced by share + 1 (k = 0: untouched)
Tampered(ss, k) ==
    [j \in 1..Len(ss) |-> IF j = k THEN [ss[j] EXCEPT !.share = Add(@, 1)] ELSE ss[j]]

\* a bool returned; the action stores with it, as index, the number of records
\* the loop examined
BoolResult(b) == [kind |-> "Bool", value |-> b, index |-> 0, needed |-> 0, provided |-> 0]

\* arguments of a call: parties, old threshold, threshold, number of shares
Call(parties, t_old, t, n) == [parties |-> parties, t_old |-> t_old, t |-> t, n |-> n]

NoCall == Call(0, 0, 0, 0)

None == [some |-> FALSE, value |-> 0]
Some(v) == [some |-> TRUE, value |-> v]

\* EnterpriseConfig::default()
EnterpriseConfig_default ==
    [security_level |-> "High", audit_enabled |-> TRUE, performance_monitoring |-> TRUE,
     compliance_mode |-> "Standard", max_key_lifetime_hours |-> 24]

\* EnterpriseCryptoSystem::new: no audit event and no metric recorded yet
EnterpriseCryptoSystem_new(config) ==
    [config |-> config, events |-> <<>>, performance_metrics |-> <<>>]

\* no Key has been made
NoKey ==
    [secret |-> 0, state |-> "NoKey", creation_time |-> 0,
     activation_time |-> None, retirement_time |-> None]

\* no reconstruction or verification has run since the records were made
Unqueried == op \notin {"recover", "verify"}

Init ==
    /\ shares = <<>>
    /\ secret = 0
    /\ threshold = 0
    /\ polys = <<>>
    /\ origin = "none"
    /\ call = NoCall
    /\ op = "init"
    /\ arg = <<>>
    /\ tamper = 0
    /\ result = NoResult
    /\ crypto_system = EnterpriseCryptoSystem_new(EnterpriseConfig_default)
    /\ key = NoKey

GenerateKeyShares ==
    /\ origin = "none"
    /\ \E s \in Secrets, n \in 1..MaxN, rng \in Streams :
         \E t \in 1..n :
           /\ shares' = generate_key_shares(s, t, n, rng)
           /\ secret' = s
           /\ threshold' = t
           /\ polys' = <<DealtPolynomial(s, t, rng)>>
           /\ call' = Call(0, 0, t, n)
    /\ origin' = "generate"
    /\ op' = "generate"
    /\ arg' = <<>>
    /\ tamper' = 0
    /\ result' = NoResult
    /\ UNCHANGED <<crypto_system, key>>

MpcGenerateKeyShares ==
    /\ origin = "none"
    /\ \E parties \in 1..MaxParties, n \in 1..MaxN, rng \in Streams :
         \E t \in 1..n :
           \E r \in {mpc_generate_key_shares(parties, t, n, rng)} :
             /\ shares' = r.shares
             /\ secret' = r.secret
             /\ threshold' = t
             /\ polys' = mpc_party_polynomials(parties, t, rng)
             /\ call' = Call(parties, 0, t, n)
             /\ result' = Ok(r.secret)
    /\ origin' = "mpc"
    /\ op' = "mpc"
    /\ arg' = <<>>
    /\ tamper' = 0
    /\ UNCHANGED <<crypto_system, key>>

UpdateShares ==
    /\ origin \in {"generate", "mpc", "adjust"}
    /\ Unqueried
    /\ \E rng \in Streams :
         /\ shares' = update_shares(shares, threshold, rng)
         /\ polys' = <<DealtPolynomial(0, threshold, rng)>>
    /\ call' = Call(0, 0, threshold, Len(shares))
    /\ origin' = "update"
    /\ op' = "update"
    /\ arg' = <<>>
    /\ tamper' = 0
    /\ result' = NoResult
    /\ UNCHANGED <<secret, threshold>>
    /\ UNCHANGED <<crypto_system, key>>

AdjustThreshold ==
    /\ origin = "generate"
    /\ Unqueried
    /\ op # "adjust"
    /\ \E I \in SUBSET (1..Len(shares)) \ {{}}, n \in 1..MaxNew, rng \in ReshareStreams :
         \E t_new \in 1..n :
           \E r \in {adjust_threshold(Select(shares, I), threshold, t_new, n, rng)} :
             /\ result' = r
             /\ arg' = <<Cardinality(I)>>
             /\ IF r.kind = "Ok"
                THEN /\ shares' = r.shares
                     /\ threshold' = t_new
                     /\ origin' = "adjust"
                     /\ polys' = <<>>
                     /\ call' = Call(0, threshold, t_new, n)
                ELSE UNCHANGED <<shares, threshold, origin, polys, call>>
    /\ op' = "adjust"
    /\ tamper' = 0
    /\ UNCHANGED secret
    /\ UNCHANGED <<crypto_system, key>>

RecoverSecretFft ==
    /\ Unqueried
    /\ \E I \in SUBSET (1..Len(shares)) :
         /\ arg' = Select(shares, I)
         /\ result' = recover_secret_fft(Select(shares, I))
    /\ op' = "recover"
    /\ tamper' = 0
    /\ UNCHANGED <<shares, secret, threshold, polys, origin, call>>
    /\ UNCHANGED <<crypto_system, key>>

VerifyShareValidity ==
    /\ Unqueried
    /\ origin # "none"
    /\ \E I \in SUBSET (1..Len(shares)) :
         \E k \in 0..Cardinality(I) :
           /\ arg' = Tampered(Select(shares, I), k)
           /\ tamper' = k
           /\ result' = [BoolResult(verify_share_validity(Tampered(Select(shares, I), k)))
                            EXCEPT !.index = verify_scan(Tampered(Select(shares, I), k), 1).examined]
    /\ op' = "verify"
    /\ UNCHANGED <<shares, secret, threshold, polys, origin, call>>
    /\ UNCHANGED <<crypto_system, key>>

\* dealing, then reconstruction and verification
Next ==
    \/ GenerateKeyShares
    \/ MpcGenerateKeyShares
    \/ RecoverSecretFft
    \/ VerifyShareValidity

Spec == Init /\ [][Next]_vars

\* dealing, then proactive refresh and resharing
NextLifecycle ==
    \/ GenerateKeyShares
    \/ MpcGenerateKeyShares
    \/ UpdateShares
    \/ AdjustThreshold

SpecLifecycle == Init /\ [][NextLifecycle]_vars

\* a share record as a caller can deserialize it: any index and share value
\* under a fixed commitment and proof
DeserializedRecords ==
    [index : 0..MaxIdx, share : 0..MaxShare, commitment : {RISTRETTO_BASEPOINT_POINT},
     random : {0},
     proof : {[T |-> RISTRETTO_BASEPOINT_POINT, z_s |-> 0, z_r |-> 0]}]

DeserializedCollections ==
    UNION {[1..len -> DeserializedRecords] : len \in 0..MaxLen}

InitRecover ==
    /\ shares \in DeserializedCollections
    /\ secret = 0
    /\ threshold = 0
    /\ polys = <<>>
    /\ origin = "deserialized"
    /\ call = NoCall
    /\ op = "init"
    /\ arg = <<>>
    /\ tamper = 0
    /\ result = NoResult
    /\ crypto_system = EnterpriseCryptoSystem_new(EnterpriseConfig_default)
    /\ key = NoKey

\* reconstruction from arbitrary collections
NextRecover == RecoverSecretFft

SpecRecover == InitRecover /\ [][NextRecover]_vars

----------------------------------------------------------------------------
(* Properties of dealing and reconstruction *)

\* C1: recover_secret_fft applied to any exactly t of the n records returned by
\* generate_key_shares(s, t, n) returns Ok(s).
C1_ReconstructionSoundness ==
    (op = "recover" /\ origin = "generate" /\ Len(arg) = threshold)
        => result = Ok(secret)

C1_Witness ==
    /\ op = "recover" /\ origin = "generate"
    /\ call = Call(0, 0, 2, 3)
    /\ secret = 1
    /\ polys[1][2] # 0
    /\ Len(arg) = 2 /\ arg[1].index = 2 /\ arg[2].index = 3
    /\ result = Ok(1)

\* the coefficient vectors under which the secret s2 gives the share values
\* of ss at the positions I
Explaining(s2, t, I, ss) ==
    {c \in [1..(t - 1) -> Field] : \A i \in I : ShareValue(s2, c, ss[i].index) = ss[i].share}

\* C2: the share values at any t - 1 indices of a dealt sharing are produced, for
\* every secret, by the same number of coefficient choices (exactly one), so
\* their distribution over the uniformly sampled coefficients is the same for
\* every secret.
C2_ShareIndependence ==
    (op = "generate")
        => \A I \in SUBSET (1..Len(shares)) :
             Cardinality(I) = threshold - 1
                => \A s2 \in Field : Cardinality(Explaining(s2, threshold, I, shares)) = 1

C2_Witness ==
    /\ op = "generate"
    /\ call = Call(0, 0, 3, 3)
    /\ secret = 1
    /\ Cardinality(Explaining(0, 3, {1, 3}, shares)) = 1
    /\ \E c \in Explaining(0, 3, {1, 3}, shares) : c # SubSeq(polys[1], 2, 3)

----------------------------------------------------------------------------
(* Properties of refresh and resharing *)

\* C3: for a valid (t, n) sharing S of s, any t records of update_shares(S, t)
\* reconstruct to the same value as the same t records of S, and that value is s.
C3_UpdatePreservesSecret ==
    [][(op' = "update")
          => \A I \in SUBSET (1..Len(shares)) :
               Cardinality(I) = threshold
                  => /\ recover_secret_fft(Select(shares', I))
                          = recover_secret_fft(Select(shares, I))
                     /\ recover_secret_fft(Select(shares', I)) = Ok(secret)]_vars

C3_Witness ==
    /\ op = "update"
    /\ call = Call(0, 0, 2, 3)
    /\ secret = 1
    /\ polys[1][2] # 0
    /\ recover_secret_fft(Select(shares, {1, 3})) = Ok(1)

\* C4: given at least t_old distinct-index records of a (t_old, n_old) sharing of
\* s and n_new >= t_new >= 1, adjust_threshold returns n_new records of which any
\* t_new reconstruct to s.
C4_AdjustPreservesSecret ==
    (op = "adjust" /\ result.kind = "Ok")
        => /\ Len(shares) = call.n
           /\ threshold = call.t
           /\ \A I \in SUBSET (1..Len(shares)) :
                Cardinality(I) = call.t
                   => recover_secret_fft(Select(shares, I)) = Ok(secret)

C4_Witness ==
    /\ op = "adjust" /\ result.kind = "Ok"
    /\ call = Call(0, 1, 2, 2)
    /\ secret = 1
    /\ recover_secret_fft(shares) = Ok(1)
    /\ recover_secret_fft(Select(shares, {1})) # Ok(1)

\* C6: every record the dealing, refresh and reshare operations emit satisfies
\* commitment = share * G + random * H, after any sequence of them.
C6_CommitmentOpens ==
    \A k \in 1..Len(shares) :
       shares[k].commitment
          = Add(Mul(RISTRETTO_BASEPOINT_POINT, shares[k].share),
                Mul(ANOTHER_POINT, shares[k].random))

C6_Witness ==
    /\ op = "update" /\ call.t = 2
    /\ Len(shares) = 3
    /\ shares[3].share # 0 /\ shares[3].random # 0
    /\ shares[3].commitment
          = Add(Mul(RISTRETTO_BASEPOINT_POINT, shares[3].share),
                Mul(ANOTHER_POINT, shares[3].random))
    /\ shares[3].commitment # Mul(RISTRETTO_BASEPOINT_POINT, shares[3].share)

----------------------------------------------------------------------------
(* Properties of distributed dealing and of share verification *)

\* C5: mpc_generate_key_shares(parties, t, n) returns (s, shares) where s is the
\* sum of the parties' constant terms, share i has value sum_p f_p(i), and any t
\* of the n shares reconstruct to s.
C5_MpcDealing ==
    (origin = "mpc")
        => /\ secret = SumTo([p \in 1..call.parties |-> polys[p][1]], call.parties)
           /\ (op = "mpc" => result = Ok(secret))
           /\ Len(shares) = call.n
           /\ \A i \in 1..Len(shares) :
                /\ shares[i].index = i
                /\ shares[i].share
                     = SumTo([p \in 1..call.parties |-> poly_evaluate(polys[p], FromU64(i))],
                             call.parties)
           /\ ((op = "recover" /\ Len(arg) = threshold) => result = Ok(secret))

C5_Witness ==
    /\ op = "recover" /\ origin = "mpc"
    /\ call = Call(2, 0, 2, 3)
    /\ polys[1][1] # 0 /\ polys[2][1] # 0 /\ polys[1][2] # 0
    /\ secret = Add(polys[1][1], polys[2][1]) /\ secret # 0
    /\ Len(arg) = 2 /\ arg[1].index = 2 /\ arg[2].index = 3
    /\ result = Ok(secret)

\* the record opens its commitment and carries a proof that verifies
RecordValid(rec) ==
    /\ rec.commitment = Add(Mul(RISTRETTO_BASEPOINT_POINT, rec.share),
                            Mul(ANOTHER_POINT, rec.random))
    /\ verify_proof(rec.proof, rec.commitment, rec.index)

\* C7: for every valid share record, replacing its share value by share + 1 makes
\* verify_share_validity return false.
C7_TamperedShareRejected ==
    (/\ op = "verify"
     /\ tamper # 0
     /\ RecordValid([arg[tamper] EXCEPT !.share = Sub(@, 1)]))
        => (result.kind = "Bool" /\ result.value = FALSE)

----------------------------------------------------------------------------
(* Properties of reconstruction from arbitrary collections *)

\* C8: on records with two equal non-zero indices recover_secret_fft returns
\* DuplicateShareIndex or ZeroDerivative, never Ok.
C8_DuplicateIndexRejected ==
    (/\ op = "recover"
     /\ \A i \in 1..Len(arg) : arg[i].index # 0
     /\ \E i, j \in 1..Len(arg) : i # j /\ arg[i].index = arg[j].index)
        => result.kind \in {"DuplicateShareIndex", "ZeroDerivative"}

C8_Witness ==
    /\ op = "recover"
    /\ Len(arg) = 3
    /\ arg[1].index = 2 /\ arg[2].index = 1 /\ arg[3].index = 2
    /\ arg[1].share # arg[3].share
    /\ result = ZeroDerivative(2)

\* C9: on records among which one has index 0 and another a non-zero index,
\* recover_secret_fft returns InvalidShareIndex { index: 0 }.
C9_ZeroIndexRejected ==
    (/\ op = "recover"
     /\ \E i \in 1..Len(arg) : arg[i].index = 0
     /\ \E j \in 1..Len(arg) : arg[j].index # 0)
        => (result.kind = "InvalidShareIndex" /\ result.index = 0)

C9_Witness ==
    /\ op = "recover"
    /\ Len(arg) = 3
    /\ arg[1].index = 1 /\ arg[2].index = 2 /\ arg[3].index = 0
    /\ result.kind = "InvalidShareIndex" /\ result.index = 0

\* C10: on the empty collection recover_secret_fft returns
\* InsufficientShares { needed: 1, provided: 0 }.
C10_EmptyRejected ==
    (op = "recover" /\ arg = <<>>)
        => (result.kind = "InsufficientShares" /\ result.needed = 1 /\ result.provided = 0)

C10_Witness ==
    /\ op = "recover"
    /\ arg = <<>>
    /\ Len(shares) = 2
    /\ result.kind = "InsufficientShares" /\ result.needed = 1 /\ result.provided = 0

----------------------------------------------------------------------------
(* The polynomial engine called directly on arbitrary coefficient sequences *)

\* coefficient sequences of up to MaxCoeffs entries; the empty one included
Polynomials == UNION {[1..len -> Field] : len \in 0..MaxCoeffs}

InitPolyMul ==
    /\ arg \in Polynomials \X Polynomials
    /\ shares = <<>>
    /\ secret = 0
    /\ threshold = 0
    /\ polys = <<>>
    /\ origin = "engine"
    /\ call = NoCall
    /\ op = "init"
    /\ tamper = 0
    /\ result = NoResult
    /\ crypto_system = EnterpriseCryptoSystem_new(EnterpriseConfig_default)
    /\ key = NoKey

\* poly_mul(a, b) on the operands held in arg
PolyMul ==
    /\ op = "init"
    /\ origin = "engine"
    /\ result' = IF mul_panics(arg[1], arg[2]) THEN Panicked
                 ELSE Ok(poly_mul(arg[1], arg[2]))
    /\ op' = "poly_mul"
    /\ UNCHANGED <<shares, secret, threshold, polys, origin, call, arg, tamper>>
    /\ UNCHANGED <<crypto_system, key>>

NextPolyMul == PolyMul

SpecPolyMul == InitPolyMul /\ [][NextPolyMul]_vars

\* C11: for all coefficient sequences a and b, the empty sequence and sequences
\* with leading zeros included, and every field element x, poly_mul(a, b)
\* completes and evaluates at x to the product of the evaluations of a and b.
C11_MulEvaluate ==
    (op = "poly_mul")
        => /\ result.kind = "Ok"
           /\ \A x \in Field :
                poly_evaluate(result.value, x)
                   = Mul(poly_evaluate(arg[1], x), poly_evaluate(arg[2], x))

----------------------------------------------------------------------------
(* The Lagrange coefficients called directly on arbitrary evaluation points *)

\* sequences of up to MaxPoints field elements, repeats and the empty one included
PointSequences == UNION {[1..len -> Field] : len \in 0..MaxPoints}

InitLagrange ==
    /\ arg \in PointSequences
    /\ shares = <<>>
    /\ secret = 0
    /\ threshold = 0
    /\ polys = <<>>
    /\ origin = "engine"
    /\ call = NoCall
    /\ op = "init"
    /\ tamper = 0
    /\ result = NoResult
    /\ crypto_system = EnterpriseCryptoSystem_new(EnterpriseConfig_default)
    /\ key = NoKey

\* compute_lagrange_coefficients(indices) on the points held in arg
ComputeLagrangeCoefficients ==
    /\ op = "init"
    /\ origin = "engine"
    /\ result' = compute_lagrange_coefficients(arg)
    /\ op' = "lagrange"
    /\ UNCHANGED <<shares, secret, threshold, polys, origin, call, arg, tamper>>
    /\ UNCHANGED <<crypto_system, key>>

NextLagrange == ComputeLagrangeCoefficients

SpecLagrange == InitLagrange /\ [][NextLagrange]_vars

\* C12: for every non-empty sequence of pairwise-distinct field elements
\* x_1..x_m, compute_lagrange_coefficients returns lambda_1..lambda_m such that
\* sum_i lambda_i * p(x_i) = p(0) for every polynomial p of degree < m.
C12_LagrangeCoefficients ==
    (/\ op = "lagrange"
     /\ arg # <<>>
     /\ \A i, j \in 1..Len(arg) : i # j => arg[i] # arg[j])
        => /\ result.kind = "Ok"
           /\ Len(result.value) = Len(arg)
           /\ \A p \in [1..Len(arg) -> Field] :
                SumTo([i \in 1..Len(arg) |->
                         Mul(result.value[i], poly_evaluate(p, arg[i]))], Len(arg)) = p[1]

C12_Witness ==
    /\ op = "lagrange"
    /\ arg = <<1, 2, 3>>
    /\ result = Ok(<<3, 2, 1>>)

----------------------------------------------------------------------------
(* Enterprise service (main.rs): the routines of EnterpriseCryptoSystem and *)
(* their CryptoResult values.                                              *)

\* the literal bound on num_shares in create_secret_shares
max_shares == 1000

RECURSIVE Decimal(_)
\* the decimal digits of n, as `{}` formats a usize
Decimal(n) ==
    IF n < 10 THEN <<<<"0", "1", "2", "3", "4", "5", "6", "7", "8", "9">>[n + 1]>>
    ELSE Decimal(n \div 10) \o Decimal(n % 10)

\* CryptoResult: `field` is the field or resource an error names, `text` its
\* reason or operation string, cut into its literal and formatted pieces
\* the readings a clock can give (Instant::elapsed, Utc::now)
Readings == {0, 1}

PerformanceMetrics(operation_type, duration_ns, input_size, algorithm_used) ==
    [operation_type |-> operation_type, duration_ns |-> duration_ns,
     input_size |-> input_size, algorithm_used |-> algorithm_used]

\* if self.config.performance_monitoring { self.performance_metrics.push(metrics) }
push_metrics(sys, metrics) ==
    IF sys.config.performance_monitoring
    THEN [sys EXCEPT !.performance_metrics = Append(@, metrics)]
    ELSE sys

\* self.error_handler.audit_logger.log_event(event)
log_event(sys, event) == [sys EXCEPT !.events = Append(@, event)]

CryptoOk(v) == [kind |-> "Ok", field |-> "", text |-> <<>>, value |-> v]

Validation(field, reason) ==
    [kind |-> "Validation", field |-> field, text |-> reason, value |-> <<>>]

ResourceExhaustion(resource) ==
    [kind |-> "ResourceExhaustion", field |-> resource, text |-> <<>>, value |-> <<>>]

CryptographicOperation(operation) ==
    [kind |-> "CryptographicOperation", field |-> "", text |-> operation, value |-> <<>>]

\* the call did not return: it panicked
ServicePanicked == [kind |-> "Panic", field |-> "", text |-> <<>>, value |-> <<>>]

\* variant: the share-count check comes before the threshold check
create_secret_shares_count_first(secret_, threshold_, num_shares, rng) ==
    IF num_shares > max_shares THEN ResourceExhaustion("share_count")
    ELSE IF threshold_ > num_shares
    THEN Validation("threshold",
                    <<"threshold ">> \o Decimal(threshold_)
                       \o <<" exceeds num_shares ">> \o Decimal(num_shares))
    ELSE IF threshold_ = 0 THEN ServicePanicked
    ELSE LET generated == generate_key_shares(secret_, threshold_, num_shares, rng)
         IN IF \E k \in 1..Len(generated) :
                  ~verify_proof(generated[k].proof, generated[k].commitment,
                                generated[k].index)
            THEN CryptographicOperation(<<"share_verification">>)
            ELSE CryptoOk(generated)

\* generate_key_shares computes 0..(threshold - 1) on usize: with threshold 0
\* the subtraction panics (debug) or wraps and the collection of usize::MAX
\* coefficients panics with a capacity overflow (release)
create_secret_shares(secret_, threshold_, num_shares, rng) ==
    IF threshold_ > num_shares
    THEN Validation("threshold",
                    <<"threshold ">> \o Decimal(threshold_)
                       \o <<" exceeds num_shares ">> \o Decimal(num_shares))
    ELSE IF num_shares > max_shares THEN ResourceExhaustion("share_count")
    ELSE IF threshold_ = 0 THEN ServicePanicked
    ELSE LET generated == generate_key_shares(secret_, threshold_, num_shares, rng)
         IN IF \E k \in 1..Len(generated) :
                  ~verify_proof(generated[k].proof, generated[k].commitment,
                                generated[k].index)
            THEN CryptographicOperation(<<"share_verification">>)
            ELSE CryptoOk(generated)

\* the thresholds and share counts a caller asks for: the small ones, zero
\* included, and ones beyond the share-count bound
ThresholdRequests == 0..(MaxN + 1) \cup {max_shares + 2}

CountRequests == 0..MaxN \cup {max_shares + 1}

CreateSecretShares ==
    /\ origin = "none"
    /\ \E s \in Secrets, t \in ThresholdRequests, n \in CountRequests, rng \in Streams :
         \E r \in {create_secret_shares(s, t, n, rng)}, d \in Readings :
           /\ result' = r
           /\ call' = Call(0, 0, t, n)
           /\ crypto_system' =
                IF r.kind = "Ok"
                THEN push_metrics(crypto_system,
                         PerformanceMetrics("share_generation", d, n, "shamir_secret_sharing"))
                ELSE crypto_system
           /\ IF r.kind = "Ok"
              THEN /\ shares' = r.value
                   /\ secret' = s
                   /\ threshold' = t
                   /\ polys' = <<DealtPolynomial(s, t, rng)>>
                   /\ origin' = "generate"
              ELSE UNCHANGED <<shares, secret, threshold, polys, origin>>
    /\ op' = "create"
    /\ arg' = <<>>
    /\ tamper' = 0
    /\ UNCHANGED key

\* the enterprise service called on a fresh system
NextService == CreateSecretShares

SpecService == Init /\ [][NextService]_vars

\* C13: every call create_secret_shares(secret, t, n, _) that violates
\* 1 <= t <= n (t > n, or t = 0) returns a Validation error and produces no
\* shares; it neither panics nor proceeds into generate_key_shares.
C13_PreconditionEnforced ==
    (op = "create" /\ ~(1 <= call.t /\ call.t <= call.n))
        => (result.kind = "Validation" /\ shares = <<>>)

\* C14 as claimed: every request with n greater than max_shares fails with
\* ResourceExhaustion("share_count"), for every value of the threshold t.
C14_ShareCountBoundAnyThreshold ==
    (op = "create" /\ call.n > max_shares)
        => (result.kind = "ResourceExhaustion" /\ result.field = "share_count")

\* C14 as amended: a request with n greater than max_shares and t <= n fails
\* with ResourceExhaustion("share_count") and produces no shares; with t > n the
\* threshold check comes first and the request fails with a Validation error.
C14_ShareCountBound ==
    (op = "create" /\ call.n > max_shares)
        => /\ shares = <<>>
           /\ call.t <= call.n
                => (result.kind = "ResourceExhaustion" /\ result.field = "share_count")
           /\ call.t > call.n
                => (result.kind = "Validation" /\ result.field = "threshold")

C14_Witness ==
    /\ op = "create"
    /\ call.n = max_shares + 1
    /\ call.t = 2
    /\ result = ResourceExhaustion("share_count")
    /\ shares = <<>>

----------------------------------------------------------------------------
(* Verification of arbitrary collections *)

NextVerify == VerifyShareValidity

SpecVerify == InitRecover /\ [][NextVerify]_vars

\* positions of arg whose proof does not verify against its commitment and index
FailingRecords(ss) ==
    {k \in 1..Len(ss) : ~verify_proof(ss[k].proof, ss[k].commitment, ss[k].index)}

\* C15: verify_share_validity(shares) returns true if and only if verify_proof
\* holds for every record (true for the empty collection); it stops at the
\* first failing record and leaves every record and all other state unchanged.
C15_VerifyAllProofs ==
    [][(op' = "verify")
          => /\ result'.kind = "Bool"
             /\ result'.value = (FailingRecords(arg') = {})
             /\ result'.index = IF FailingRecords(arg') = {} THEN Len(arg')
                                ELSE Least(FailingRecords(arg'))
             /\ <<shares, secret, threshold, polys, origin, call>>'
                   = <<shares, secret, threshold, polys, origin, call>>]_vars

C15_Witness ==
    /\ op = "verify"
    /\ Len(arg) = 3
    /\ FailingRecords(arg) = {2, 3}
    /\ result.value = FALSE
    /\ result.index = 2

----------------------------------------------------------------------------
(* Destruction of share records *)

\* storage released by the destruction of records: what it held at release
Released(ss) == [kind |-> "Released", value |-> ss, index |-> 0, needed |-> 0, provided |-> 0]

\* the records at the positions I leave scope: each is dropped, the others stay
DropShares ==
    /\ origin \in {"generate", "mpc"}
    /\ shares # <<>>
    /\ \E I \in SUBSET (1..Len(shares)) \ {{}} :
         /\ arg' = Select(shares, I)
         /\ result' = Released([k \in 1..Cardinality(I) |->
                                  ShareData_drop(Select(shares, I)[k])])
         /\ shares' = Select(shares, (1..Len(shares)) \ I)
    /\ op' = "drop"
    /\ tamper' = 0
    /\ UNCHANGED <<secret, threshold, polys, origin, call>>
    /\ UNCHANGED <<crypto_system, key>>

\* dealing, then destruction of records
NextDrop ==
    \/ GenerateKeyShares
    \/ MpcGenerateKeyShares
    \/ DropShares

SpecDrop == Init /\ [][NextDrop]_vars

\* C16: whenever a ShareData record is destroyed, its share and random fields
\* are set to zero before its storage is released: no destroyed record keeps a
\* non-zero share or random.
C16_ZeroizedOnDrop ==
    (op = "drop")
        => /\ Len(result.value) = Len(arg)
           /\ \A k \in 1..Len(arg) :
                /\ result.value[k].share = 0
                /\ result.value[k].random = 0
                /\ result.value[k].index = arg[k].index

C16_Witness ==
    /\ op = "drop"
    /\ Len(arg) = 2
    /\ arg[1].share # 0 /\ arg[1].random # 0
    /\ arg[2].share # 0 /\ arg[2].random # 0
    /\ result.value[1].share = 0 /\ result.value[1].random = 0
    /\ result.value[2].share = 0 /\ result.value[2].random = 0
    /\ shares # <<>>

----------------------------------------------------------------------------
(* Serialisation: scalars and points as hex text of their canonical bytes.
   The widths are scaled with the field: a byte holds ByteBase values and is
   written as two hex digits of HexBase values each, and a canonical encoding
   is ENCODED_LEN bytes long, so that ENCODED_LEN bytes hold more values than
   there are scalars and non-canonical byte strings exist. *)

HexBase == 2
ByteBase == HexBase * HexBase
ENCODED_LEN == 2

\* a character that is not a hex digit
NotHex == HexBase
Chars == 0..HexBase

RECURSIVE ByteBasePow(_)
ByteBasePow(k) == IF k = 0 THEN 1 ELSE ByteBase * ByteBasePow(k - 1)

\* little-endian bytes of a number, and the number of little-endian bytes
to_bytes(x) == [k \in 1..ENCODED_LEN |-> (x \div ByteBasePow(k - 1)) % ByteBase]

RECURSIVE from_le(_, _)
from_le(bytes, k) ==
    IF k > Len(bytes) THEN 0
    ELSE bytes[k] * ByteBasePow(k - 1) + from_le(bytes, k + 1)

\* Scalar::from_canonical_bytes: only the representative below the order
from_canonical_bytes(arr) ==
    IF from_le(arr, 1) < BASEPOINT_ORDER THEN Some(from_le(arr, 1)) ELSE None

\* RistrettoPoint::compress: the identity is the all-zero string, and every
\* encoding is an even ("non-negative") number
compress(p) == to_bytes(2 * p)

\* CompressedRistretto::decompress: odd or out-of-range strings are no point
decompress(arr) ==
    IF from_le(arr, 1) % 2 = 0 /\ from_le(arr, 1) \div 2 < BASEPOINT_ORDER
    THEN Some(from_le(arr, 1) \div 2)
    ELSE None

is_identity(p) == p = IdentityPoint

\* hex::encode: two digits per byte, high digit first
hex_encode(bytes) ==
    [c \in 1..(2 * Len(bytes)) |->
        IF c % 2 = 1 THEN bytes[(c + 1) \div 2] \div HexBase
                     ELSE bytes[c \div 2] % HexBase]

\* hex::decode: fails on an odd length and on a character that is no digit
hex_decode(s) ==
    IF Len(s) % 2 = 1 \/ (\E c \in 1..Len(s) : s[c] \notin 0..(HexBase - 1))
    THEN None
    ELSE Some([k \in 1..(Len(s) \div 2) |-> s[2 * k - 1] * HexBase + s[2 * k]])

DeOk(v) == [kind |-> "Ok", value |-> v, text |-> ""]
DeErr(text) == [kind |-> "Err", value |-> 0, text |-> text]

SerScalar_serialize(x) == hex_encode(to_bytes(x))

SerScalar_deserialize(s) ==
    IF ~hex_decode(s).some THEN DeErr("hex")
    ELSE IF Len(hex_decode(s).value) # ENCODED_LEN THEN DeErr("Invalid scalar length")
    ELSE IF from_canonical_bytes(hex_decode(s).value).some
         THEN DeOk(from_canonical_bytes(hex_decode(s).value).value)
         ELSE DeErr("Invalid scalar canonical bytes")

SerRistrettoPoint_serialize(p) == hex_encode(compress(p))

\* variant: the decompressed point is returned whatever it is
SerRistrettoPoint_deserialize_any_point(s) ==
    IF ~hex_decode(s).some THEN DeErr("hex")
    ELSE IF Len(hex_decode(s).value) # ENCODED_LEN THEN DeErr("Invalid point length")
    ELSE IF decompress(hex_decode(s).value).some
         THEN DeOk(decompress(hex_decode(s).value).value)
         ELSE DeErr("Invalid compressed point")

SerRistrettoPoint_deserialize(s) ==
    IF ~hex_decode(s).some THEN DeErr("hex")
    ELSE IF Len(hex_decode(s).value) # ENCODED_LEN THEN DeErr("Invalid point length")
    ELSE IF decompress(hex_decode(s).value).some
         THEN IF ~is_identity(decompress(hex_decode(s).value).value)
              THEN DeOk(decompress(hex_decode(s).value).value)
              ELSE DeErr("Invalid point: identity")
         ELSE DeErr("Invalid compressed point")

\* the serialised form of a proof (its three fields in the same text forms)
Proof_serialize(proof) ==
    [T |-> SerRistrettoPoint_serialize(proof.T),
     z_s |-> SerScalar_serialize(proof.z_s),
     z_r |-> SerScalar_serialize(proof.z_r)]

Proof_deserialize(w) ==
    IF /\ SerRistrettoPoint_deserialize(w.T).kind = "Ok"
       /\ SerScalar_deserialize(w.z_s).kind = "Ok"
       /\ SerScalar_deserialize(w.z_r).kind = "Ok"
    THEN DeOk([T |-> SerRistrettoPoint_deserialize(w.T).value,
               z_s |-> SerScalar_deserialize(w.z_s).value,
               z_r |-> SerScalar_deserialize(w.z_r).value])
    ELSE DeErr("proof")

\* #[derive(Serialize)] for ShareData: field by field through the helpers
ShareData_serialize(rec) ==
    [index |-> rec.index,
     share |-> SerScalar_serialize(rec.share),
     commitment |-> SerRistrettoPoint_serialize(rec.commitment),
     random |-> SerScalar_serialize(rec.random),
     proof |-> Proof_serialize(rec.proof)]

\* #[derive(Deserialize)] for ShareData: the first failing field fails the record
ShareData_deserialize(w) ==
    IF SerScalar_deserialize(w.share).kind # "Ok"
    THEN SerScalar_deserialize(w.share)
    ELSE IF SerRistrettoPoint_deserialize(w.commitment).kind # "Ok"
    THEN SerRistrettoPoint_deserialize(w.commitment)
    ELSE IF SerScalar_deserialize(w.random).kind # "Ok"
    THEN SerScalar_deserialize(w.random)
    ELSE IF Proof_deserialize(w.proof).kind # "Ok"
    THEN Proof_deserialize(w.proof)
    ELSE DeOk([index |-> w.index,
               share |-> SerScalar_deserialize(w.share).value,
               commitment |-> SerRistrettoPoint_deserialize(w.commitment).value,
               random |-> SerScalar_deserialize(w.random).value,
               proof |-> Proof_deserialize(w.proof).value])

\* a held record is serialised and the text is deserialised again
RoundTrip ==
    /\ shares # <<>>
    /\ \E k \in 1..Len(shares) :
         /\ arg' = <<shares[k]>>
         /\ result' = ShareData_deserialize(ShareData_serialize(shares[k]))
    /\ op' = "roundtrip"
    /\ tamper' = 0
    /\ UNCHANGED <<shares, secret, threshold, polys, origin, call>>
    /\ UNCHANGED <<crypto_system, key>>

\* dealing, resharing, and serialisation of the records they emit
NextSerde ==
    \/ GenerateKeyShares
    \/ AdjustThreshold
    \/ RoundTrip

SpecSerde == Init /\ [][NextSerde]_vars

\* C17: for every share record R the library can emit, decoding the encoding
\* of R succeeds and yields a record equal to R field by field.
C17_RoundTrip ==
    (op = "roundtrip") => (result = DeOk(arg[1]))

----------------------------------------------------------------------------
(* Decoding of point text received from outside *)

RECURSIVE TextsOfLen(_)
TextsOfLen(n) ==
    IF n = 0 THEN {<<>>}
    ELSE {Append(s, c) : s \in TextsOfLen(n - 1), c \in Chars}

\* every text of up to MaxText characters, hex digits or not
Texts == UNION {TextsOfLen(n) : n \in 0..MaxText}

InitDecode ==
    /\ shares = <<>>
    /\ secret = 0
    /\ threshold = 0
    /\ polys = <<>>
    /\ origin = "codec"
    /\ call = NoCall
    /\ op = "none"
    /\ arg \in Texts
    /\ tamper = 0
    /\ result = NoResult
    /\ crypto_system = EnterpriseCryptoSystem_new(EnterpriseConfig_default)
    /\ key = NoKey

DecodePoint ==
    /\ op = "none"
    /\ op' = "decode_point"
    /\ result' = SerRistrettoPoint_deserialize(arg)
    /\ UNCHANGED <<shares, secret, threshold, polys, origin, call, arg, tamper>>
    /\ UNCHANGED <<crypto_system, key>>

NextDecode == DecodePoint

SpecDecode == InitDecode /\ [][NextDecode]_vars

\* C18: decoding a point text fails when its bytes are the compressed identity,
\* when it is not exactly the encoded length, and when it does not decompress;
\* it succeeds exactly on the encodings of non-identity points, with that point.
C18_IdentityPointRejected ==
    (op = "decode_point")
        => /\ (arg = SerRistrettoPoint_serialize(IdentityPoint)) => (result.kind = "Err")
           /\ (Len(arg) # 2 * ENCODED_LEN) => (result.kind = "Err")
           /\ (\A p \in Field : arg # SerRistrettoPoint_serialize(p)) => (result.kind = "Err")
           /\ \A p \in Field \ {IdentityPoint} :
                (arg = SerRistrettoPoint_serialize(p)) => (result = DeOk(p))

C18_Witness ==
    /\ op = "decode_point"
    /\ arg = SerRistrettoPoint_serialize(IdentityPoint)
    /\ Len(arg) = 2 * ENCODED_LEN
    /\ result = DeErr("Invalid point: identity")

----------------------------------------------------------------------------
\* C19: adjust_threshold called with fewer than t_old existing shares fails
\* with an InsufficientShares error (needed t_old, provided the number of
\* existing shares) and emits no new share records.
C19_ReshareCountChecked ==
    (op = "adjust" /\ arg[1] < threshold /\ origin = "generate")
        => /\ result.kind = "Err"
           /\ result.inner = InsufficientShares(threshold, arg[1])
           /\ result.shares = <<>>

----------------------------------------------------------------------------
(* Error propagation through the service-level routines *)

\* #[error("...")] of LagrangeError: the message, cut into its literal and
\* formatted pieces
LagrangeError_fmt(e) ==
    CASE e.kind = "InsufficientShares" ->
           <<"Insufficient shares: need at least ">> \o Decimal(e.needed)
              \o <<", got ">> \o Decimal(e.provided)
      [] e.kind = "InvalidShareIndex" ->
           <<"Invalid share index: ">> \o Decimal(e.index) \o <<" (must be non-zero)">>
      [] e.kind = "DuplicateShareIndex" ->
           <<"Duplicate share index: ">> \o Decimal(e.index)
      [] e.kind = "ZeroDerivative" ->
           <<"Zero derivative at share ">> \o Decimal(e.index)
      [] e.kind = "NumericalInstability" ->
           <<"Numerical instability detected">>

\* variant: the operation context alone
recover_secret_enterprise_context_only(ss) ==
    IF \E k \in 1..Len(ss) : ~verify_proof(ss[k].proof, ss[k].commitment, ss[k].index)
    THEN CryptographicOperation(<<"share_validation">>)
    ELSE IF recover_secret_fft(ss).kind = "Ok"
    THEN CryptoOk(recover_secret_fft(ss).value)
    ELSE CryptographicOperation(<<"secret_recovery">>)

recover_secret_enterprise(ss) ==
    IF \E k \in 1..Len(ss) : ~verify_proof(ss[k].proof, ss[k].commitment, ss[k].index)
    THEN CryptographicOperation(<<"share_validation">>)
    ELSE IF recover_secret_fft(ss).kind = "Ok"
    THEN CryptoOk(recover_secret_fft(ss).value)
    ELSE CryptographicOperation(<<"secret_recovery: ">>
                                   \o LagrangeError_fmt(recover_secret_fft(ss)))

\* the String that adjust_threshold returns as its error (the literal of the
\* last message is transliterated)
adjust_threshold_message(r) ==
    CASE r.what = "AtLeast" ->
           <<"At least ">> \o Decimal(r.index)
              \o <<" slices are needed for threshold adjustment">>
      [] r.what = "IndexZero" ->
           <<"Segmented index ">> \o Decimal(r.index) \o <<" Invalid, cannot be 0">>
      [] r.what = "IndexRepeat" ->
           <<"Split Index ">> \o Decimal(r.index) \o <<" Repeat">>
      [] r.what = "Lagrange" ->
           <<"jisuan Lagrange xishu shibai: ">> \o LagrangeError_fmt(r.inner)

\* variant: the metric is recorded before the shares are validated
recover_secret_enterprise_system_metric_first(sys, ss, d) ==
    push_metrics(sys, PerformanceMetrics("secret_recovery", d, Len(ss), "lagrange_fft"))

\* the system recover_secret_enterprise(ss, _) leaves behind when the elapsed
\* time it measures is d: both error returns come before the metric
recover_secret_enterprise_system(sys, ss, d) ==
    IF recover_secret_enterprise(ss).kind = "Ok"
    THEN push_metrics(sys, PerformanceMetrics("secret_recovery", d, Len(ss), "lagrange_fft"))
    ELSE sys

StringErr(text) == [kind |-> "Err", field |-> "", text |-> text, value |-> <<>>]

\* a record with a valid proof at any index, as any party can build one, and
\* one record whose proof does not verify
ProvenRecords ==
    {[index |-> i, share |-> s, commitment |-> Commit(s, 0), random |-> 0,
      proof |-> generate_proof(s, 0, i, Commit(s, 0), 1, 0)] :
        i \in 0..MaxIdx, s \in 0..MaxShare}
    \cup {[index |-> 1, share |-> 0, commitment |-> RISTRETTO_BASEPOINT_POINT,
           random |-> 0,
           proof |-> [T |-> RISTRETTO_BASEPOINT_POINT, z_s |-> 0, z_r |-> 0]]}

AllProven(ss) ==
    \A k \in 1..Len(ss) : verify_proof(ss[k].proof, ss[k].commitment, ss[k].index)

InitPropagate ==
    /\ shares \in UNION {[1..len -> ProvenRecords] : len \in 0..MaxLen}
    /\ secret = 0
    /\ threshold = 0
    /\ polys = <<>>
    /\ origin = "received"
    /\ call = NoCall
    /\ op = "init"
    /\ arg = <<>>
    /\ tamper = 0
    /\ result = NoResult
    /\ crypto_system = EnterpriseCryptoSystem_new(EnterpriseConfig_default)
    /\ key = NoKey

RecoverSecretEnterprise ==
    /\ op \in {"init", "generate_key"}
    /\ op' = "recover_enterprise"
    /\ arg' = shares
    /\ result' = recover_secret_enterprise(shares)
    /\ \E d \in Readings :
         crypto_system' = recover_secret_enterprise_system(crypto_system, shares, d)
    /\ UNCHANGED <<shares, secret, threshold, polys, origin, call, tamper, key>>

\* a reshare of the received records to one new share of threshold 1, under
\* any claimed original threshold
AdjustThresholdReceived ==
    /\ op = "init"
    /\ \E t_old \in 0..MaxLen :
         \E r \in {adjust_threshold(shares, t_old, 1, 1, <<0, 0>>)} :
           /\ result' = IF r.kind = "Ok" THEN CryptoOk(r.shares)
                        ELSE StringErr(adjust_threshold_message(r))
           /\ call' = Call(0, t_old, 1, 1)
    /\ op' = "adjust_received"
    /\ arg' = shares
    /\ UNCHANGED <<shares, secret, threshold, polys, origin, tamper>>
    /\ UNCHANGED <<crypto_system, key>>

NextPropagate ==
    \/ RecoverSecretEnterprise
    \/ AdjustThresholdReceived

SpecPropagate == InitPropagate /\ [][NextPropagate]_vars

LagrangeKinds ==
    {"InsufficientShares", "InvalidShareIndex", "DuplicateShareIndex",
     "ZeroDerivative", "NumericalInstability"}

\* the first words of the message of a LagrangeError of kind K
KindWords(K) ==
    LagrangeError_fmt([kind |-> K, value |-> 0, index |-> 0, needed |-> 0, provided |-> 0])[1]

\* the kinds whose message appears in a returned text
KindsNamedIn(text) ==
    {K \in LagrangeKinds : \E i \in 1..Len(text) : text[i] = KindWords(K)}

\* the indices handed to compute_lagrange_coefficients by adjust_threshold
ReceivedIndices == [k \in 1..Len(arg) |-> FromU64(arg[k].index)]

\* adjust_threshold's own checks pass on the received records
AdjustChecksPass ==
    /\ Len(arg) >= call.t_old
    /\ \A k \in 1..Len(arg) : arg[k].index # 0
    /\ \A j, k \in 1..Len(arg) : (j # k) => (arg[j].index # arg[k].index)

\* C20: when recover_secret_fft fails inside recover_secret_enterprise, or
\* compute_lagrange_coefficients fails inside adjust_threshold, the error
\* returned to the caller is an error that names exactly the inner error's
\* kind: the kind can be told from the returned value.
C20_InnerKindCarried ==
    /\ (op = "recover_enterprise" /\ AllProven(arg)
           /\ recover_secret_fft(arg).kind \in LagrangeKinds)
          => /\ result.kind = "CryptographicOperation"
             /\ KindsNamedIn(result.text) = {recover_secret_fft(arg).kind}
    /\ (op = "adjust_received" /\ AdjustChecksPass
           /\ compute_lagrange_coefficients(ReceivedIndices).kind \in LagrangeKinds)
          => /\ result.kind = "Err"
             /\ KindsNamedIn(result.text)
                  = {compute_lagrange_coefficients(ReceivedIndices).kind}

C20_Witness ==
    /\ op = "recover_enterprise"
    /\ Len(arg) = 2
    /\ arg[1].index = arg[2].index
    /\ arg[1].index # 0
    /\ AllProven(arg)
    /\ recover_secret_fft(arg).kind = "ZeroDerivative"
    /\ result = CryptographicOperation(
                   <<"secret_recovery: ", "Zero derivative at share ">>
                      \o Decimal(arg[1].index))

----------------------------------------------------------------------------
\* C21: when every record passed to recover_secret_fft has index 0 and all
\* their share values are identical, the call returns Ok(that value); when all
\* have index 0 but two values differ, it returns NumericalInstability.
C21_DirectSecretBranch ==
    (/\ op = "recover"
     /\ arg # <<>>
     /\ \A i \in 1..Len(arg) : arg[i].index = 0)
        => IF \A i \in 1..Len(arg) : arg[i].share = arg[1].share
           THEN result = Ok(arg[1].share)
           ELSE result = NumericalInstability

----------------------------------------------------------------------------
(* The multiplication dispatch on operands long enough for every branch *)

\* a coefficient sequence of a given length with zero and non-zero entries
CoefficientPattern(len, c) ==
    [k \in 1..len |-> (c + (c + 1) * k + k * k) % BASEPOINT_ORDER]

\* operand lengths around the Karatsuba leaf size 32: with a partner they give
\* result lengths on both sides of 64, equal and very different lengths, odd
\* and even splits
KaratsubaLengths == {1, 2, 33, 34, 65}

KaratsubaOperands ==
    {CoefficientPattern(len, c) : len \in KaratsubaLengths, c \in 0..MaxPattern}

\* operand pairs with a result longer than 1024: one operand above 1024 (the
\* parallel split) against a short, a medium and an equally long one
ParallelPairs ==
    {<<CoefficientPattern(1025, 0), CoefficientPattern(len, 1)>> : len \in {2, 1025}}
    \cup {<<CoefficientPattern(3, 1), CoefficientPattern(1027, 0)>>}

InitDispatch ==
    /\ arg \in (KaratsubaOperands \X KaratsubaOperands) \cup ParallelPairs
    /\ shares = <<>>
    /\ secret = 0
    /\ threshold = 0
    /\ polys = <<>>
    /\ origin = "engine"
    /\ call = NoCall
    /\ op = "init"
    /\ tamper = 0
    /\ result = NoResult
    /\ crypto_system = EnterpriseCryptoSystem_new(EnterpriseConfig_default)
    /\ key = NoKey

NextDispatch == PolyMul

SpecDispatch == InitDispatch /\ [][NextDispatch]_vars

\* C22: for all non-empty coefficient sequences a and b, poly_mul(a, b) returns
\* a vector of length |a| + |b| - 1 equal coefficient by coefficient to
\* naive_mul(a, b), whichever branch is selected and for every split.
C22_DispatchEquivalence ==
    (op = "poly_mul" /\ arg[1] # <<>> /\ arg[2] # <<>>)
        => /\ result.kind = "Ok"
           /\ Len(result.value) = Len(arg[1]) + Len(arg[2]) - 1
           /\ \A k \in 1..Len(result.value) :
                result.value[k] = naive_mul(arg[1], arg[2])[k]

\* the Karatsuba branch on operands of lengths 65 and 1
C22_Witness ==
    /\ op = "poly_mul"
    /\ Len(arg[1]) = 65
    /\ Len(arg[2]) = 1
    /\ result.kind = "Ok"
    /\ Len(result.value) = 65
    /\ \E k \in 1..65 : result.value[k] # 0

----------------------------------------------------------------------------
(* Reconstruction from received records of any non-zero index, in any order *)

\* a received record: an index in 1..MaxN and any share value
IndexedRecords ==
    [index : 1..MaxN, share : 0..MaxShare, commitment : {RISTRETTO_BASEPOINT_POINT},
     random : {0},
     proof : {[T |-> RISTRETTO_BASEPOINT_POINT, z_s |-> 0, z_r |-> 0]}]

InitFormula ==
    /\ shares \in UNION {[1..len -> IndexedRecords] : len \in 1..MaxPoints}
    /\ secret = 0
    /\ threshold = 0
    /\ polys = <<>>
    /\ origin = "received"
    /\ call = NoCall
    /\ op = "init"
    /\ arg = <<>>
    /\ tamper = 0
    /\ result = NoResult
    /\ crypto_system = EnterpriseCryptoSystem_new(EnterpriseConfig_default)
    /\ key = NoKey

\* recover_secret_fft on the whole received collection
RecoverReceived ==
    /\ op = "init"
    /\ origin = "received"
    /\ op' = "recover"
    /\ arg' = shares
    /\ result' = recover_secret_fft(shares)
    /\ UNCHANGED <<shares, secret, threshold, polys, origin, call, tamper>>
    /\ UNCHANGED <<crypto_system, key>>

NextFormula == RecoverReceived

SpecFormula == InitFormula /\ [][NextFormula]_vars

\* the indices of the records in arg, as field elements
ArgIndices == [i \in 1..Len(arg) |-> FromU64(arg[i].index)]

\* C23: for every non-empty collection with pairwise-distinct non-zero indices,
\* the value returned by recover_secret_fft equals the sum of share_i * lambda_i
\* with lambda from compute_lagrange_coefficients on the same indices.
C23_FormulaEquivalence ==
    (/\ op = "recover"
     /\ arg # <<>>
     /\ \A i \in 1..Len(arg) : arg[i].index # 0
     /\ \A i, j \in 1..Len(arg) : (i # j) => (arg[i].index # arg[j].index))
        => /\ compute_lagrange_coefficients(ArgIndices).kind = "Ok"
           /\ result
                = Ok(SumTo([i \in 1..Len(arg) |->
                              Mul(arg[i].share,
                                  compute_lagrange_coefficients(ArgIndices).value[i])],
                           Len(arg)))

C23_Witness ==
    /\ op = "recover"
    /\ Len(arg) = 3
    /\ arg[1].index = 3 /\ arg[2].index = 1 /\ arg[3].index = 2
    /\ arg[1].share = 1 /\ arg[2].share = 0 /\ arg[3].share = 1
    /\ result.kind = "Ok"
    /\ result.value # 0

----------------------------------------------------------------------------
\* C24: compute_lagrange_coefficients fails exactly when its input is empty or
\* contains two equal elements (then with a duplicate-index error); for every
\* non-empty pairwise-distinct input, one containing the element 0 included,
\* it returns Ok with exactly m coefficients.
C24_LagrangeFailureSet ==
    (op = "lagrange")
        => LET repeated == \E i, j \in 1..Len(arg) : i # j /\ arg[i] = arg[j]
           IN /\ (result.kind # "Ok") <=> (arg = <<>> \/ repeated)
              /\ repeated => (result.kind = "DuplicateShareIndex")
              /\ (arg # <<>> /\ ~repeated)
                   => (result.kind = "Ok" /\ Len(result.value) = Len(arg))

C24_Witness ==
    /\ op = "lagrange"
    /\ arg = <<2, 0, 1>>
    /\ result.kind = "Ok"
    /\ Len(result.value) = 3

----------------------------------------------------------------------------
(* generate_key_shares with its parallel section unfolded: the coefficients
   are sampled first, then one worker per index runs the closure in any order,
   and collect assembles the vector *)

\* the closure of the parallel map for the item i
share_closure(s, coeffs, i, random, u, v) ==
    [index |-> i,
     share |-> ShareValue(s, coeffs, i),
     commitment |-> Commit(ShareValue(s, coeffs, i), random),
     random |-> random,
     proof |-> generate_proof(ShareValue(s, coeffs, i), random, i,
                              Commit(ShareValue(s, coeffs, i), random), u, v)]

\* variant: the vector holds the items in the order the workers finished
collect_as_completed(log, n) == [k \in 1..n |-> log[k].item]

\* variant: from the first failed item on, every element is that failure
collect_first_failure(log, n) ==
    [k \in 1..n |->
       IF \E p \in 1..k :
            log[CHOOSE c \in 1..Len(log) : log[c].position = p].item.kind # "Ok"
       THEN log[CHOOSE c \in 1..Len(log) :
                  log[c].position
                     = Least({p \in 1..k :
                                log[CHOOSE d \in 1..Len(log) : log[d].position = p].item.kind
                                   # "Ok"})].item
       ELSE log[CHOOSE c \in 1..Len(log) : log[c].position = k].item]

\* collect of an indexed parallel iterator: the item of the k-th input is the
\* k-th element, whenever its worker finished
collect(log, n) ==
    [k \in 1..n |-> log[CHOOSE c \in 1..Len(log) : log[c].position = k].item]

\* the coefficients are sampled; no worker has run (arg is the completion log)
BeginGenerate ==
    /\ origin = "none"
    /\ \E s \in Secrets, n \in 1..MaxN, rng \in Streams :
         \E t \in 1..n :
           /\ secret' = s
           /\ threshold' = t
           /\ polys' = <<DealtPolynomial(s, t, rng)>>
           /\ call' = Call(0, 0, t, n)
    /\ origin' = "dealing"
    /\ op' = "dealing"
    /\ arg' = <<>>
    /\ shares' = <<>>
    /\ tamper' = 0
    /\ result' = NoResult
    /\ UNCHANGED <<crypto_system, key>>

\* the worker of one input that has not run yet runs, with its own generator
ShareWorker ==
    /\ origin = "dealing"
    /\ \E i \in 1..call.n, random \in 0..1 :
         /\ \A c \in 1..Len(arg) : arg[c].position # i
         /\ arg' = Append(arg,
                          [position |-> i,
                           item |-> share_closure(secret,
                                                  SubSeq(polys[1], 2, Len(polys[1])),
                                                  i, random, 1, 0)])
    /\ UNCHANGED <<shares, secret, threshold, polys, origin, call, op, tamper, result>>
    /\ UNCHANGED <<crypto_system, key>>

\* every worker has finished: the vector is returned
CollectShares ==
    /\ origin = "dealing"
    /\ Len(arg) = call.n
    /\ shares' = collect(arg, call.n)
    /\ origin' = "generate"
    /\ op' = "generate"
    /\ UNCHANGED <<secret, threshold, polys, call, arg, tamper, result>>
    /\ UNCHANGED <<crypto_system, key>>

NextParallel ==
    \/ BeginGenerate
    \/ ShareWorker
    \/ CollectShares

SpecParallel == Init /\ [][NextParallel]_vars

\* C25: generate_key_shares(s, t, n) returns exactly n records whose indices
\* are 1, 2, ..., n in ascending order, for every interleaving of the parallel
\* workers; the k-th record's value is f(k) for the single polynomial f sampled
\* before the parallel section.
C25_AscendingOrder ==
    (origin = "generate")
        => /\ Len(shares) = call.n
           /\ Len(polys[1]) = call.t
           /\ polys[1][1] = secret
           /\ \A k \in 1..Len(shares) :
                /\ shares[k].index = k
                /\ shares[k].share = poly_evaluate(polys[1], FromU64(k))

\* the workers finished in the order 3, 1, 2
C25_Witness ==
    /\ origin = "generate"
    /\ call.n = 3
    /\ call.t = 2
    /\ polys[1][2] # 0
    /\ arg[1].position = 3 /\ arg[2].position = 1 /\ arg[3].position = 2
    /\ shares[1].index = 1 /\ shares[2].index = 2 /\ shares[3].index = 3

----------------------------------------------------------------------------
(* update_shares called on received records, which it only borrows *)

\* update_shares(&shares, t): the new vector is returned, the input is not written
UpdateReceived ==
    /\ op = "init"
    /\ origin = "received"
    /\ \E t \in 1..MaxRefresh, rng \in ReshareStreams :
         /\ result' = Ok(update_shares(shares, t, rng))
         /\ call' = Call(0, 0, t, Len(shares))
    /\ op' = "refresh"
    /\ arg' = shares
    /\ UNCHANGED <<shares, secret, threshold, polys, origin, tamper>>
    /\ UNCHANGED <<crypto_system, key>>

NextRefresh == UpdateReceived

SpecRefresh == InitFormula /\ [][NextRefresh]_vars

\* the polynomials of degree at most t - 1 with zero constant term
ZeroConstantPolynomials(t) == {g \in [1..t -> Field] : g[1] = 0}

\* C26: update_shares(S, t) returns as many records as S, the k-th output has
\* the index of the k-th input, and one polynomial g of degree <= t - 1 with
\* g(0) = 0, the same for all records, gives each new share as old share +
\* g(index); the input records are left unchanged.
C26_RefreshShape ==
    [][(op' = "refresh")
          => /\ result'.kind = "Ok"
             /\ Len(result'.value) = Len(shares)
             /\ \A k \in 1..Len(shares) : result'.value[k].index = shares[k].index
             /\ \E g \in ZeroConstantPolynomials(call'.t) :
                  \A k \in 1..Len(shares) :
                    result'.value[k].share
                       = Add(shares[k].share,
                             poly_evaluate(g, FromU64(shares[k].index)))
             /\ shares' = shares]_vars

\* three records of different indices refreshed with a non-zero g of degree 1
C26_Witness ==
    /\ op = "refresh"
    /\ call.t = 2
    /\ Len(shares) = 3
    /\ shares[1].index = 2 /\ shares[2].index = 1 /\ shares[3].index = 3
    /\ result.value[1].index = 2 /\ result.value[2].index = 1 /\ result.value[3].index = 3
    /\ result.value[2].share # shares[2].share
    /\ arg = shares

----------------------------------------------------------------------------
\* C27: in adjust_threshold the blinding value of new share j is the sum over
\* the contributors i of g_i(j), each g_i one fixed polynomial of degree
\* <= t_new - 1 with zero constant term used for all j in 1..n_new: the
\* blinding values of the new shares are the values at 1..n_new of one
\* polynomial of degree <= t_new - 1 with zero constant term (the sum of the
\* g_i), so any t_new of them interpolate to 0 at 0.
C27_BlindingPolynomial ==
    (op = "adjust" /\ result.kind = "Ok")
        => \E G \in ZeroConstantPolynomials(call.t) :
             \A j \in 1..Len(shares) :
               shares[j].random = poly_evaluate(G, FromU64(shares[j].index))

----------------------------------------------------------------------------
(* recover_secrets_batch with its parallel map unfolded: one worker per batch
   runs recover_secret_fft in any order, and collect assembles the results *)

\* the records batches are made of: any index, zero included
BatchRecords ==
    {[index |-> i, share |-> FromU64(i + 1), commitment |-> RISTRETTO_BASEPOINT_POINT,
      random |-> 0,
      proof |-> [T |-> RISTRETTO_BASEPOINT_POINT, z_s |-> 0, z_r |-> 0]] : i \in 0..MaxIdx}

\* a batch: up to two records, the empty batch and repeated indices included
Batches == UNION {[1..len -> BatchRecords] : len \in 0..2}

InitBatch ==
    /\ shares \in UNION {[1..len -> Batches] : len \in 0..MaxBatch}
    /\ secret = 0
    /\ threshold = 0
    /\ polys = <<>>
    /\ origin = "batches"
    /\ call = NoCall
    /\ op = "init"
    /\ arg = <<>>
    /\ tamper = 0
    /\ result = NoResult
    /\ crypto_system = EnterpriseCryptoSystem_new(EnterpriseConfig_default)
    /\ key = NoKey

\* the worker of one batch that has not run yet runs (arg is the completion log)
BatchWorker ==
    /\ origin = "batches"
    /\ op = "init"
    /\ \E i \in 1..Len(shares) :
         /\ \A c \in 1..Len(arg) : arg[c].position # i
         /\ arg' = Append(arg, [position |-> i, item |-> recover_secret_fft(shares[i])])
    /\ UNCHANGED <<shares, secret, threshold, polys, origin, call, op, tamper, result>>
    /\ UNCHANGED <<crypto_system, key>>

\* every worker has finished: the vector of results is returned
CollectBatch ==
    /\ origin = "batches"
    /\ op = "init"
    /\ Len(arg) = Len(shares)
    /\ result' = Ok(collect(arg, Len(shares)))
    /\ op' = "batch"
    /\ UNCHANGED <<shares, secret, threshold, polys, origin, call, arg, tamper>>
    /\ UNCHANGED <<crypto_system, key>>

NextBatch ==
    \/ BatchWorker
    \/ CollectBatch

SpecBatch == InitBatch /\ [][NextBatch]_vars

\* C28: recover_secrets_batch(batches) returns one result per batch, in the
\* order of the batches, and result k equals recover_secret_fft(batches[k]) for
\* every interleaving of the parallel workers; an error in one batch does not
\* change the result of any other batch.
C28_BatchIndependence ==
    (op = "batch")
        => /\ Len(result.value) = Len(shares)
           /\ \A k \in 1..Len(shares) :
                result.value[k] = recover_secret_fft(shares[k])

\* the failing first batch finished last; the second batch's value is returned
C28_Witness ==
    /\ op = "batch"
    /\ Len(shares) = 2
    /\ arg[1].position = 2 /\ arg[2].position = 1
    /\ result.value[1].kind = "InvalidShareIndex"
    /\ result.value[2].kind = "Ok"
    /\ result.value[2].value # 0


-----------------------------------------------------------------------------
(* Key lifecycle (key_lifecycle.rs) *)

\* Key::new: a key in the Generated state
Key_new(secret_, now) ==
    [secret |-> secret_, state |-> "Generated", creation_time |-> now,
     activation_time |-> None, retirement_time |-> None]

\* Key::activate
Key_activate(k, now) == [k EXCEPT !.state = "Active", !.activation_time = Some(now)]

\* Key::retire
Key_retire(k, now) == [k EXCEPT !.state = "Retired", !.retirement_time = Some(now)]

\* Key::destroy: Scalar::zeroize leaves the zero scalar
Key_destroy(k) == [k EXCEPT !.secret = 0, !.state = "Destroyed"]

-----------------------------------------------------------------------------
(* The enterprise system's bookkeeping (main.rs) *)

MaxSupplied == 2    \* most records handed to recover_secret_enterprise on a managed system

SecurityEvent(kind, key_id, timestamp) ==
    [kind |-> kind, key_id |-> key_id, timestamp |-> timestamp]

\* the system generate_enterprise_key(key_id) leaves behind; the clock
\* readings of one call are taken equal
generate_enterprise_key_system(sys, key_id, now, d) ==
    push_metrics(
        log_event(log_event(sys, SecurityEvent("KeyGenerated", key_id, now)),
                  SecurityEvent("KeyActivated", key_id, now)),
        PerformanceMetrics("key_generation", d, 1, "curve25519_dalek"))

\* a system built with performance monitoring on or off, handed up to
\* MaxSupplied records
InitEnterprise ==
    /\ shares \in UNION {[1..len -> ProvenRecords] : len \in 0..MaxSupplied}
    /\ secret = 0
    /\ threshold = 0
    /\ polys = <<>>
    /\ origin = "received"
    /\ call = NoCall
    /\ op = "init"
    /\ arg = <<>>
    /\ tamper = 0
    /\ result = NoResult
    /\ crypto_system \in
         {EnterpriseCryptoSystem_new([EnterpriseConfig_default
                                         EXCEPT !.performance_monitoring = b]) :
            b \in BOOLEAN}
    /\ key = NoKey

GenerateEnterpriseKey ==
    /\ op = "init"
    /\ key = NoKey
    /\ \E s \in Field, now \in Readings, d \in Readings :
         /\ key' = Key_activate(Key_new(s, now), now)
         /\ crypto_system' =
              generate_enterprise_key_system(crypto_system, "master-key-001", now, d)
         /\ result' = CryptoOk(Key_activate(Key_new(s, now), now))
    /\ op' = "generate_key"
    /\ UNCHANGED <<shares, secret, threshold, polys, origin, call, arg, tamper>>

NextEnterprise ==
    \/ GenerateEnterpriseKey
    \/ RecoverSecretEnterprise

SpecEnterprise == InitEnterprise /\ [][NextEnterprise]_vars

\* C29: a call of recover_secret_enterprise on records of which one fails
\* proof verification returns CryptographicOperation("share_validation"),
\* whatever reconstruction would have returned; every call that returns an
\* error leaves the system's audit events and performance metrics as they
\* were; and the metrics change only on success with performance monitoring
\* enabled, by one appended "secret_recovery" metric.
C29_VerifyBeforeRecover ==
    [][(op' = "recover_enterprise") =>
         /\ (~AllProven(shares)) =>
               result' = CryptographicOperation(<<"share_validation">>)
         /\ (result'.kind # "Ok") =>
               /\ crypto_system'.events = crypto_system.events
               /\ crypto_system'.performance_metrics = crypto_system.performance_metrics
         /\ (crypto_system'.performance_metrics # crypto_system.performance_metrics) =>
               /\ result'.kind = "Ok"
               /\ crypto_system.config.performance_monitoring
               /\ \E d \in Readings :
                    crypto_system'.performance_metrics =
                      Append(crypto_system.performance_metrics,
                             PerformanceMetrics("secret_recovery", d, Len(shares),
                                                "lagrange_fft"))]_vars

\* two records, the second with a proof that does not verify, refused after
\* a key was generated: the two audit events and the metric of the key
\* generation are all the system holds
C29_Witness ==
    /\ op = "recover_enterprise"
    /\ Len(arg) = 2
    /\ verify_proof(arg[1].proof, arg[1].commitment, arg[1].index)
    /\ ~verify_proof(arg[2].proof, arg[2].commitment, arg[2].index)
    /\ recover_secret_fft(arg).kind = "Ok"
    /\ result = CryptographicOperation(<<"share_validation">>)
    /\ Len(crypto_system.events) = 2
    /\ Len(crypto_system.performance_metrics) = 1
    /\ crypto_system.performance_metrics[1].operation_type = "key_generation"


\* a key is made once, then activated, retired and destroyed in any order and
\* any number of times
InitKey ==
    /\ shares = <<>>
    /\ secret = 0
    /\ threshold = 0
    /\ polys = <<>>
    /\ origin = "none"
    /\ call = NoCall
    /\ op = "init"
    /\ arg = <<>>
    /\ tamper = 0
    /\ result = NoResult
    /\ crypto_system = EnterpriseCryptoSystem_new(EnterpriseConfig_default)
    /\ key = NoKey

KeyNew ==
    /\ key = NoKey
    /\ \E s \in Field, now \in Readings : key' = Key_new(s, now)
    /\ op' = "new"
    /\ UNCHANGED <<shares, secret, threshold, polys, origin, call, arg, tamper, result,
                   crypto_system>>

KeyActivate ==
    /\ key # NoKey
    /\ \E now \in Readings : key' = Key_activate(key, now)
    /\ op' = "activate"
    /\ UNCHANGED <<shares, secret, threshold, polys, origin, call, arg, tamper, result,
                   crypto_system>>

KeyRetire ==
    /\ key # NoKey
    /\ \E now \in Readings : key' = Key_retire(key, now)
    /\ op' = "retire"
    /\ UNCHANGED <<shares, secret, threshold, polys, origin, call, arg, tamper, result,
                   crypto_system>>

KeyDestroy ==
    /\ key # NoKey
    /\ key' = Key_destroy(key)
    /\ op' = "destroy"
    /\ UNCHANGED <<shares, secret, threshold, polys, origin, call, arg, tamper, result,
                   crypto_system>>

NextKey ==
    \/ KeyNew
    \/ KeyActivate
    \/ KeyRetire
    \/ KeyDestroy

SpecKey == InitKey /\ [][NextKey]_vars

\* C30: a call of destroy leaves the key with a zero secret in the Destroyed
\* state, and every call of activate, retire or destroy on a key in the
\* Destroyed state leaves its secret zero and its state Destroyed.
C30_DestructionFinal ==
    [][/\ (op' = "destroy") => (key'.secret = 0 /\ key'.state = "Destroyed")
       /\ (key.state = "Destroyed") => (key'.secret = 0 /\ key'.state = "Destroyed")]_vars

====
